---- MODULE Spec2Model ----
(***************************************************************************)
(* Model of the two note utilities of michaelmagistro/notetools:           *)
(*   - addFrontMatter.py : the frontmatter injector                        *)
(*   - imagePasteChk.py  : the image reference reconciler                  *)
(* Strings are sequences of tokens, so that startswith, substring and      *)
(* endswith tests are computed and not assumed.                            *)
(***************************************************************************)
EXTENDS Integers, Sequences, FiniteSets, TLC

VARIABLES
    \* ---- frontmatter injector (addFrontMatter.py) ----
    folder_kind,      \* what folder_path names: "missing", "file" or "dir"
    disk,             \* file name -> content, the files directly inside the folder
    category,         \* the category label given to process_folder
    txt_files,        \* list(folder.glob('*.txt')) of the current run
    idx,              \* number of entries of txt_files already handled
    processed_count,
    skipped_count,
    inj_pc,           \* "start", "loop", "done" ("idle": the injector is not running)
    run,              \* 1 = first run of process_folder, 2 = the run right after it
    outcome,          \* file name -> what add_frontmatter_to_file did in this run
    outcome1,         \* outcome of the first run, kept when the second run starts
    disk_before,      \* disk as it was when the current run started
    io_errors,        \* number of reads and writes that have failed so far
    \* ---- image reference reconciler (imagePasteChk.py) ----
    fs_files,         \* the files of the file system, each a full path
    fs_content,       \* text file path -> content
    fs_dirs,          \* the configured folders that exist (as directories)
    pc,               \* where main is: "scan", "images", "mkdir", "write",
                      \* "summary", "done", "aborted" (an uncaught exception)
    fi,               \* index in folders_to_search of the folder main handles next
    all_results,
    all_referenced_images,
    all_images_status,
    report,           \* what was written to outputs/brokenimagelinks.txt
    summary,          \* the counts printed at the end
    opened,           \* text files handed to find_image_references
    read_failed,      \* text files whose read raised
    list_failed       \* configured folders whose imagepaste listing raised

inj_vars == <<folder_kind, disk, category, txt_files, idx, processed_count,
              skipped_count, inj_pc, run, outcome, outcome1, disk_before,
              io_errors>>

inj_vars_but_errors == <<folder_kind, disk, category, txt_files, idx, processed_count,
                         skipped_count, inj_pc, run, outcome, outcome1, disk_before>>

rec_vars == <<fs_files, fs_content, fs_dirs, pc, fi, all_results,
              all_referenced_images, all_images_status, report, summary,
              opened, read_failed, list_failed>>

vars == <<inj_vars, rec_vars>>

-----------------------------------------------------------------------------
(* Bounds of the injector's inputs *)

MaxFiles == 2

\* at most this many reads and writes fail in one execution
MaxIoErrors == 2

TxtNamePool == <<"a.txt", "b.txt", "c.txt", "d.txt">>

\* the .txt names a folder may hold
TxtNames == {TxtNamePool[k] : k \in 1..MaxFiles}

\* a file of the folder that glob('*.txt') does not match
OtherName == "todo.md"

Categories == {"personal", "technical"}

\* contents a note may have before the injector runs
InitialContents ==
    { <<>>, <<"-", "-", "x">>, <<"-", "-", "-", "\n", "x">> }

-----------------------------------------------------------------------------
(* add_frontmatter_to_file *)

StartsWith(s, p) == Len(s) >= Len(p) /\ SubSeq(s, 1, Len(p)) = p

Prefixes(s) == {SubSeq(s, 1, k) : k \in 0..Len(s)}

\* content.startswith('---')
HasFrontmatterBadMarker(content) == StartsWith(content, <<"-", "-", "-", "-">>)

HasFrontmatter(content) == StartsWith(content, <<"-", "-", "-">>)

\* the f-string of lines 30-38
Frontmatter(title, cat) ==
    <<"-", "-", "-", "\nlayout: general\ntitle: ", title,
      "\ncategories: [", cat,
      "]\ntags: []\nauthor: Michael Magistro\n---\n\n">>

extract_title_from_filename(filename) == filename

\* Every way one call of add_frontmatter_to_file can end: what it returns and
\* what the file holds afterwards.  open(..., 'w') truncates the file before
\* anything is written, so a write that fails after the open leaves a prefix
\* of the new content behind; an open that fails leaves the file alone.
AddFrontmatterWriteErrorCounted(content, cat, title) ==
    LET new == Frontmatter(title, cat) \o content IN
    {[kind |-> "read_error", ret |-> FALSE, content |-> content]}
    \cup
    IF HasFrontmatter(content)
    THEN {[kind |-> "has_marker", ret |-> FALSE, content |-> content]}
    ELSE {[kind |-> "written", ret |-> TRUE, content |-> new]}
         \cup {[kind |-> "write_error", ret |-> TRUE, content |-> c] :
                  c \in {content} \cup Prefixes(new)}

add_frontmatter_to_file(content, cat, title) ==
    LET new == Frontmatter(title, cat) \o content IN
    {[kind |-> "read_error", ret |-> FALSE, content |-> content]}
    \cup
    IF HasFrontmatter(content)
    THEN {[kind |-> "has_marker", ret |-> FALSE, content |-> content]}
    ELSE {[kind |-> "written", ret |-> TRUE, content |-> new]}
         \cup {[kind |-> "write_error", ret |-> FALSE, content |-> c] :
                  c \in {content} \cup Prefixes(new)}

-----------------------------------------------------------------------------
(* process_folder of the injector *)

IsTxt(name) == name \in {TxtNamePool[k] : k \in 1..Len(TxtNamePool)}

\* all orders in which glob may list the set S
Orderings(S) ==
    {s \in [1..Cardinality(S) -> S] : \A i, j \in 1..Cardinality(S) : i # j => s[i] # s[j]}

NoOutcome == [n \in {} |-> "none"]

\* the reconciler is not running
RecIdle ==
    /\ fs_files = {}
    /\ fs_content = <<>>
    /\ fs_dirs = {}
    /\ pc = "idle"
    /\ fi = 1
    /\ all_results = <<>>
    /\ all_referenced_images = {}
    /\ all_images_status = <<>>
    /\ report = <<>>
    /\ summary = <<>>
    /\ opened = {}
    /\ read_failed = {}
    /\ list_failed = {}

InjInit ==
    /\ folder_kind \in {"missing", "file", "dir"}
    /\ category \in Categories
    /\ \E names \in SUBSET (TxtNames \cup {OtherName}) :
          /\ folder_kind # "dir" => names = {}
          /\ disk \in [names -> InitialContents]
          /\ \A n \in names : ~IsTxt(n) => disk[n] = <<"x">>
    /\ txt_files = <<>>
    /\ idx = 0
    /\ processed_count = 0
    /\ skipped_count = 0
    /\ inj_pc = "start"
    /\ run = 1
    /\ outcome = NoOutcome
    /\ outcome1 = NoOutcome
    /\ disk_before = disk
    /\ io_errors = 0
    /\ RecIdle

\* lines 75-97: the folder checks, the glob and the counters
InjStart ==
    /\ inj_pc = "start"
    /\ IF folder_kind # "dir" \/ {n \in DOMAIN disk : IsTxt(n)} = {}
       THEN /\ inj_pc' = "done"
            /\ txt_files' = <<>>
       ELSE /\ inj_pc' = "loop"
            /\ txt_files' \in Orderings({n \in DOMAIN disk : IsTxt(n)})
    /\ idx' = 0
    /\ processed_count' = 0
    /\ skipped_count' = 0
    /\ UNCHANGED <<folder_kind, disk, category, run, outcome, outcome1, disk_before,
                   io_errors, rec_vars>>

IsIoError(kind) == kind \in {"read_error", "write_error"}

\* lines 99-105: one iteration of the loop, the whole call included
InjFile ==
    /\ inj_pc = "loop"
    /\ idx < Len(txt_files)
    /\ LET name == txt_files[idx + 1]
           title == extract_title_from_filename(name) IN
       \E r \in add_frontmatter_to_file(disk[name], category, title) :
          /\ IsIoError(r.kind) => io_errors < MaxIoErrors
          /\ io_errors' = IF IsIoError(r.kind) THEN io_errors + 1 ELSE io_errors
          /\ disk' = [disk EXCEPT ![name] = r.content]
          /\ outcome' = [n \in DOMAIN outcome \cup {name} |->
                            IF n = name THEN r.kind ELSE outcome[n]]
          /\ IF r.ret
             THEN /\ processed_count' = processed_count + 1
                  /\ skipped_count' = skipped_count
             ELSE /\ skipped_count' = skipped_count + 1
                  /\ processed_count' = processed_count
    /\ idx' = idx + 1
    /\ UNCHANGED <<folder_kind, category, txt_files, inj_pc, run, outcome1, disk_before,
                   rec_vars>>

\* lines 107-110: the loop is over, the counts are printed
InjReport ==
    /\ inj_pc = "loop"
    /\ idx = Len(txt_files)
    /\ inj_pc' = "done"
    /\ UNCHANGED <<folder_kind, disk, category, txt_files, idx, processed_count,
                   skipped_count, run, outcome, outcome1, disk_before, io_errors,
                   rec_vars>>

\* the script is run a second time on the same folder
InjRunAgain ==
    /\ inj_pc = "done"
    /\ run = 1
    /\ run' = 2
    /\ inj_pc' = "start"
    /\ outcome1' = outcome
    /\ outcome' = NoOutcome
    /\ disk_before' = disk
    /\ txt_files' = <<>>
    /\ idx' = 0
    /\ processed_count' = 0
    /\ skipped_count' = 0
    /\ UNCHANGED <<folder_kind, disk, category, io_errors, rec_vars>>

InjNext == InjStart \/ InjFile \/ InjReport \/ InjRunAgain

SpecInj == InjInit /\ [][InjNext]_vars

-----------------------------------------------------------------------------
(* The reconciler's file system.  A path is a sequence of components and a  *)
(* component (a file or directory name) is a sequence of tokens.            *)

MaxFsFiles == 3

Home == << <<"home">>, <<"user">> >>

\* os.path.expanduser
expanduser(p) == IF Len(p) > 0 /\ p[1] = <<"~">> THEN Home \o Tail(p) ELSE p

\* lines 131-135
folders_to_search ==
    << expanduser(<< <<"~">>, <<"dropbox">>, <<"notes_personal">> >>),
       expanduser(<< <<"~">>, <<"dropbox">>, <<"notes_technical">> >>),
       expanduser(<< <<"~">>, <<"dropbox">>, <<"notes_crypto">> >>) >>

Folders == {folders_to_search[k] : k \in 1..Len(folders_to_search)}

Imagepaste == <<"imagepaste">>

NoteName == <<"note", ".txt">>

\* directories of a configured folder a note may lie in
NoteDirs == { <<>>, << <<"sub">> >>, << Imagepaste >>, << <<"old_", "imagepaste">> >> }

AssetNames == { <<"a", ".png">>, <<"b", ".PNG">> }

text == [kind |-> "text", dir |-> <<>>, name |-> <<>>]

\* the markdown image link ![..](dir/name)
link(dir, name) == [kind |-> "image", dir |-> dir, name |-> name]

\* contents a note may have
NoteContents ==
    { << link(Imagepaste, <<"a", ".png">>), text, link(Imagepaste, <<"a", ".png">>) >>,
      << link(Imagepaste, <<"a", ".png">>), link(<<"images">>, <<"b", ".PNG">>),
         link(Imagepaste, <<"b", ".PNG">>) >> }

TextSpots == {f \o d \o <<NoteName>> : f \in Folders, d \in NoteDirs}

AssetSpots == {f \o <<Imagepaste, n>> : f \in Folders, n \in AssetNames}

IsProperPrefix(p, q) == Len(p) < Len(q) /\ SubSeq(q, 1, Len(p)) = p

isfile(p) == p \in fs_files

isdir(p) == p \in fs_dirs \/ \E f \in fs_files : IsProperPrefix(p, f)

exists(p) == isfile(p) \/ isdir(p)

listdir(p) == {f[Len(p) + 1] : f \in {g \in fs_files : IsProperPrefix(p, g)}}

basename(p) == p[Len(p)]

Lower(t) == CASE t = ".PNG" -> ".png" [] t = ".TXT" -> ".txt" [] OTHER -> t

\* name.lower().endswith(e) for some e of exts
EndsWithAny(name, exts) == Len(name) > 0 /\ Lower(name[Len(name)]) \in exts

\* a set as a sequence, in an order that is fixed but not otherwise known
RECURSIVE SeqOf(_)
SeqOf(S) == IF S = {} THEN <<>>
            ELSE LET x == CHOOSE y \in S : TRUE IN <<x>> \o SeqOf(S \ {x})

RECURSIVE Flatten(_)
Flatten(ss) == IF ss = <<>> THEN <<>> ELSE Head(ss) \o Flatten(Tail(ss))

Range(s) == {s[k] : k \in 1..Len(s)}

\* os.walk(top): the directories from top down
RECURSIVE walk(_)
walk(top) ==
    LET subdirs == {d \in listdir(top) : isdir(top \o <<d>>)} IN
    <<top>> \o Flatten([k \in 1..Cardinality(subdirs) |->
                           walk(top \o <<SeqOf(subdirs)[k]>>)])

-----------------------------------------------------------------------------
(* find_image_references, check_image_exists, process_folder *)

\* re.findall of !\[([^\]]*)\]\(imagepaste/([^)]+)\) and the second group
Matches(item) == item.kind = "image" /\ item.dir = Imagepaste /\ Len(item.name) > 0

find_image_references(content) ==
    LET hits == SelectSeq(content, Matches) IN
    [k \in 1..Len(hits) |-> hits[k].name]

check_image_exists_in_folder(folder_path, image_name) ==
    isfile(folder_path \o <<image_name>>)

check_image_exists(folder_path, image_name) ==
    isfile(folder_path \o <<Imagepaste, image_name>>)

\* 'imagepaste' in root
ContainsImagepaste(root) ==
    \E c \in 1..Len(root) : \E t \in 1..Len(root[c]) : root[c][t] = "imagepaste"

relpath(file_path, folder_path) == SubSeq(file_path, Len(folder_path) + 1, Len(file_path))

\* lines 64-66: the text files the walk of folder_path reaches, in walk order
VisitedTextFiles(folder_path) ==
    LET roots == SelectSeq(walk(folder_path), LAMBDA r : ~ContainsImagepaste(r))
        txt(r) == SeqOf({r \o <<n>> : n \in
                           {m \in listdir(r) : isfile(r \o <<m>>)
                                               /\ EndsWithAny(m, {".txt"})}})
    IN Flatten([k \in 1..Len(roots) |-> txt(roots[k])])

\* lines 67-78 for one text file; the files of failing cannot be read
FileRecordsBesideFile(folder_path, file_path, failing) ==
    LET image_refs == IF file_path \in failing THEN <<>>
                      ELSE find_image_references(fs_content[file_path])
        here == SubSeq(file_path, 1, Len(file_path) - 1)
    IN [k \in 1..Len(image_refs) |->
          << basename(folder_path), relpath(file_path, folder_path), image_refs[k],
             IF check_image_exists(here, image_refs[k]) THEN "Found" ELSE "Missing" >>]

FileRecords(folder_path, file_path, failing) ==
    LET image_refs == IF file_path \in failing THEN <<>>
                      ELSE find_image_references(fs_content[file_path])
    IN [k \in 1..Len(image_refs) |->
          << basename(folder_path), relpath(file_path, folder_path), image_refs[k],
             IF check_image_exists(folder_path, image_refs[k])
             THEN "Found" ELSE "Missing" >>]

process_folder(folder_path, failing) ==
    IF ~exists(folder_path) THEN <<>>
    ELSE LET files == VisitedTextFiles(folder_path) IN
         Flatten([k \in 1..Len(files) |-> FileRecords(folder_path, files[k], failing)])

-----------------------------------------------------------------------------
(* find_all_images_with_status *)

ImageExts == {".png", ".jpg", ".jpeg", ".gif", ".bmp", ".svg"}

\* sorted(image_files): "a.png" < "b.PNG"
SortedNames == << <<"a", ".png">>, <<"b", ".PNG">> >>

sorted(S) == SelectSeq(SortedNames, LAMBDA n : n \in S)

ImagePathWithoutFolder(folder_name, file) == << <<"">>, Imagepaste, file >>

\* f"{folder_name}/imagepaste/{file}"
ImagePath(folder_name, file) == << folder_name, Imagepaste, file >>

\* lines 94-124 for one folder; the imagepaste folders of failing cannot be listed
FolderImages(folder, referenced_images, failing) ==
    LET imagepaste_path == folder \o <<Imagepaste>>
        image_files == {n \in listdir(imagepaste_path) : EndsWithAny(n, ImageExts)}
        names == sorted(image_files)
    IN IF ~exists(folder) \/ ~exists(imagepaste_path) \/ folder \in failing
       THEN <<>>
       ELSE [k \in 1..Len(names) |->
               << ImagePath(basename(folder), names[k]),
                  IF names[k] \in referenced_images THEN "referenced" ELSE "orphaned" >>]

find_all_images_with_status(folders, referenced_images, failing) ==
    Flatten([k \in 1..Len(folders) |-> FolderImages(folders[k], referenced_images, failing)])

-----------------------------------------------------------------------------
(* main *)

Sentinel(folder) ==
    << basename(folder), << <<"FOLDER_NOT_FOUND">> >>, <<"N/A">>, "Folder does not exist" >>

FoundNames(folder_results) ==
    {folder_results[k][3] : k \in {j \in 1..Len(folder_results) :
                                      folder_results[j][4] = "Found"}}

\* lines 147-149
ReferencedNames(folder_results) ==
    {folder_results[k][3] : k \in 1..Len(folder_results)}

\* sum(1 for r in s if r[col] == value)
Count(s, col, value) == Cardinality({k \in 1..Len(s) : s[k][col] = value})

\* lines 197-201
Summary(results, images) ==
    LET missing_count == Count(results, 4, "Missing")
        orphaned_count == Count(images, 2, "orphaned")
    IN [found |-> Len(results) - missing_count,
        missing |-> missing_count,
        total |-> Len(images),
        referenced |-> Len(images) - orphaned_count,
        orphaned |-> orphaned_count]

InjIdle ==
    /\ folder_kind = "missing"
    /\ disk = <<>>
    /\ category = "personal"
    /\ txt_files = <<>>
    /\ idx = 0
    /\ processed_count = 0
    /\ skipped_count = 0
    /\ inj_pc = "idle"
    /\ run = 1
    /\ outcome = NoOutcome
    /\ outcome1 = NoOutcome
    /\ disk_before = <<>>

RecInit ==
    /\ InjIdle
    /\ io_errors = 0
    /\ fs_files \in {S \in SUBSET (TextSpots \cup AssetSpots) : Cardinality(S) <= MaxFsFiles}
    /\ fs_content \in [fs_files \cap TextSpots -> NoteContents]
    /\ fs_dirs \in {D \in SUBSET Folders :
                      \A f \in Folders : (\E g \in fs_files : IsProperPrefix(f, g)) => f \in D}
    /\ pc = "scan"
    /\ fi = 1
    /\ all_results = <<>>
    /\ all_referenced_images = {}
    /\ all_images_status = <<>>
    /\ report = <<>>
    /\ summary = <<>>
    /\ opened = {}
    /\ read_failed = {}
    /\ list_failed = {}

\* lines 141-155: one iteration of the loop over folders_to_search
MainFolderStopsAtMissing ==
    /\ pc = "scan"
    /\ fi <= Len(folders_to_search)
    /\ LET folder == folders_to_search[fi] IN
       IF exists(folder)
       THEN \E failing \in SUBSET Range(VisitedTextFiles(folder)) :
               /\ io_errors + Cardinality(failing) <= MaxIoErrors
               /\ io_errors' = io_errors + Cardinality(failing)
               /\ LET folder_results == process_folder(folder, failing) IN
                  /\ all_results' = all_results \o folder_results
                  /\ all_referenced_images' =
                        all_referenced_images \cup ReferencedNames(folder_results)
               /\ opened' = opened \cup Range(VisitedTextFiles(folder))
               /\ read_failed' = read_failed \cup failing
               /\ fi' = fi + 1
       ELSE /\ all_results' = Append(all_results, Sentinel(folder))
            /\ fi' = Len(folders_to_search) + 1
            /\ UNCHANGED <<all_referenced_images, opened, read_failed, io_errors>>
    /\ UNCHANGED <<inj_vars_but_errors, fs_files, fs_content, fs_dirs, pc, all_images_status,
                   report, summary, list_failed>>

MainFolder ==
    /\ pc = "scan"
    /\ fi <= Len(folders_to_search)
    /\ LET folder == folders_to_search[fi] IN
       IF exists(folder)
       THEN \E failing \in SUBSET Range(VisitedTextFiles(folder)) :
               /\ io_errors + Cardinality(failing) <= MaxIoErrors
               /\ io_errors' = io_errors + Cardinality(failing)
               /\ LET folder_results == process_folder(folder, failing) IN
                  /\ all_results' = all_results \o folder_results
                  /\ all_referenced_images' =
                        all_referenced_images \cup ReferencedNames(folder_results)
               /\ opened' = opened \cup Range(VisitedTextFiles(folder))
               /\ read_failed' = read_failed \cup failing
       ELSE /\ all_results' = Append(all_results, Sentinel(folder))
            /\ UNCHANGED <<all_referenced_images, opened, read_failed, io_errors>>
    /\ fi' = fi + 1
    /\ UNCHANGED <<inj_vars_but_errors, fs_files, fs_content, fs_dirs, pc, all_images_status,
                   report, summary, list_failed>>

\* lines 157-163: the reverse check, once the loop is over
MainImages ==
    /\ pc = "scan"
    /\ fi > Len(folders_to_search)
    /\ \E failing \in SUBSET {f \in Folders : exists(f \o <<Imagepaste>>)} :
          /\ io_errors + Cardinality(failing) <= MaxIoErrors
          /\ io_errors' = io_errors + Cardinality(failing)
          /\ list_failed' = failing
          /\ all_images_status' =
                find_all_images_with_status(folders_to_search, all_referenced_images, failing)
    /\ pc' = "mkdir"
    /\ UNCHANGED <<inj_vars_but_errors, fs_files, fs_content, fs_dirs, fi, all_results,
                   all_referenced_images, report, summary, opened, read_failed>>

\* lines 165-167: os.makedirs is not inside a try
MainMakedirs ==
    /\ pc = "mkdir"
    /\ \/ /\ pc' = "write"
          /\ UNCHANGED io_errors
       \/ /\ io_errors < MaxIoErrors
          /\ io_errors' = io_errors + 1
          /\ pc' = "aborted"
    /\ UNCHANGED <<inj_vars_but_errors, fs_files, fs_content, fs_dirs, fi, all_results,
                   all_referenced_images, all_images_status, report, summary, opened,
                   read_failed, list_failed>>

\* lines 169-191: open and the csv writer are not inside a try
MainWrite ==
    /\ pc = "write"
    /\ \/ /\ pc' = "summary"
          /\ report' = <<all_results, all_images_status>>
          /\ UNCHANGED io_errors
       \/ /\ io_errors < MaxIoErrors
          /\ io_errors' = io_errors + 1
          /\ pc' = "aborted"
          /\ UNCHANGED report
    /\ UNCHANGED <<inj_vars_but_errors, fs_files, fs_content, fs_dirs, fi, all_results,
                   all_referenced_images, all_images_status, summary, opened,
                   read_failed, list_failed>>

\* lines 193-207
MainSummary ==
    /\ pc = "summary"
    /\ summary' = Summary(all_results, all_images_status)
    /\ pc' = "done"
    /\ UNCHANGED <<inj_vars_but_errors, io_errors, fs_files, fs_content, fs_dirs, fi,
                   all_results, all_referenced_images, all_images_status, report, opened,
                   read_failed, list_failed>>

RecNext == MainFolder \/ MainImages \/ MainMakedirs \/ MainWrite \/ MainSummary

SpecRec == RecInit /\ [][RecNext]_vars

-----------------------------------------------------------------------------
(* Properties of the frontmatter injector, checked under SpecInj *)

SecondRunDone == inj_pc = "done" /\ run = 2

SettledInFirstRun(n) == n \in DOMAIN outcome1 /\ outcome1[n] \in {"written", "has_marker"}

TxtOnDisk == {n \in DOMAIN disk : IsTxt(n)}

NoWriteFailed ==
    /\ \A n \in DOMAIN outcome1 : outcome1[n] # "write_error"
    /\ \A n \in DOMAIN outcome : outcome[n] # "write_error"

\* C1 as stated: after two runs of process_folder in succession every file
\* holds what it held after the first run, and the second run counts as
\* skipped every file the first run wrote or found with the marker.  It is
\* stated here for the executions in which no write fails, so that what
\* refutes it is not the truncation a failed write leaves behind (C10).
C1_SecondRunChangesNothing ==
    (SecondRunDone /\ NoWriteFailed) =>
        /\ \A n \in DOMAIN disk : disk[n] = disk_before[n]
        /\ \A n \in DOMAIN outcome1 :
              SettledInFirstRun(n) => n \in DOMAIN outcome /\ outcome[n] # "written"

\* C1 as amended: every file the first run wrote or found with the marker is
\* left alone by the second run and counted as skipped in it; when the first
\* run settled every .txt file that way, the second run changes no file and
\* processes none.
C1_SettledFilesStayUnchanged ==
    /\ run = 2 => \A n \in DOMAIN outcome1 :
                     SettledInFirstRun(n) => disk[n] = disk_before[n]
    /\ SecondRunDone =>
          /\ \A n \in DOMAIN outcome1 :
                SettledInFirstRun(n) => n \in DOMAIN outcome /\ outcome[n] # "written"
          /\ (\A n \in TxtOnDisk : SettledInFirstRun(n)) =>
                /\ \A n \in DOMAIN disk : disk[n] = disk_before[n]
                /\ processed_count = 0

C1_Witness ==
    /\ SecondRunDone
    /\ \E n \in DOMAIN outcome1 : outcome1[n] = "written" /\ outcome[n] = "has_marker"
    /\ \E n \in DOMAIN outcome1 : outcome1[n] = "has_marker" /\ outcome[n] = "has_marker"

\* C5: a read or write error on a file counts it as skipped and the loop goes
\* on: the two counts add up to the number of files handled, at the end to the
\* number of .txt files found, every one of them visited, and processed_count
\* is the number of files written without error.
C5_CountsAddUp ==
    /\ processed_count + skipped_count = idx
    /\ processed_count = Cardinality({n \in DOMAIN outcome : outcome[n] = "written"})
    /\ inj_pc = "done" =>
          /\ processed_count + skipped_count = Cardinality(TxtOnDisk)
          /\ DOMAIN outcome = TxtOnDisk

C5_Witness ==
    /\ inj_pc = "done"
    /\ Len(txt_files) = 2
    /\ outcome[txt_files[1]] \in {"read_error", "write_error"}
    /\ outcome[txt_files[2]] = "written"
    /\ processed_count = 1
    /\ skipped_count = 1

\* C10 as stated: a file reported as skipped (marker present, read error or
\* write error) holds what it held before the call, and a processed file holds
\* the metadata block followed by its complete original content.
C10_SkippedFilesUntouched ==
    \A n \in DOMAIN disk :
       IF n \in DOMAIN outcome /\ outcome[n] = "written"
       THEN disk[n] = Frontmatter(extract_title_from_filename(n), category) \o disk_before[n]
       ELSE disk[n] = disk_before[n]

-----------------------------------------------------------------------------
(* Properties of the reconciler, checked under SpecRec *)

IsReference(r) == r[4] \in {"Found", "Missing"}

FolderNamed(name) == CHOOSE f \in Folders : basename(f) = name

\* the configured folder a file lies under
FolderOfFile(f) == CHOOSE g \in Folders : IsProperPrefix(g, f)

ScanOver == fi > Len(folders_to_search)

ImagesListed == pc \in {"mkdir", "write", "summary", "done", "aborted"}

\* C2: every reference extracted from a text file under folder F has a record,
\* and the record says Found exactly when F/imagepaste holds a file of the
\* referenced name, whichever file or subdirectory the reference came from.
C2_StatusByFolderAndName ==
    /\ \A k \in 1..Len(all_results) :
          LET r == all_results[k] IN
          IsReference(r) =>
             /\ (r[4] = "Found") <=> (FolderNamed(r[1]) \o <<Imagepaste, r[3]>> \in fs_files)
             /\ (r[4] = "Missing") <=> (FolderNamed(r[1]) \o <<Imagepaste, r[3]>> \notin fs_files)
    /\ \A f \in opened \ read_failed :
          \A item \in Range(fs_content[f]) :
             (item.kind = "image" /\ item.dir = Imagepaste) =>
                \E k \in 1..Len(all_results) :
                   /\ all_results[k][1] = basename(FolderOfFile(f))
                   /\ all_results[k][2] = relpath(f, FolderOfFile(f))
                   /\ all_results[k][3] = item.name
                   /\ IsReference(all_results[k])

C2_Witness ==
    \E j, k \in 1..Len(all_results) :
       /\ all_results[j][1] = all_results[k][1]
       /\ Len(all_results[j][2]) = 1
       /\ Len(all_results[k][2]) = 2
       /\ all_results[j][3] = all_results[k][3]
       /\ all_results[j][4] = "Found"
       /\ all_results[k][4] = "Found"

ReferencedAnywhere(n) ==
    \E k \in 1..Len(all_results) : IsReference(all_results[k]) /\ all_results[k][3] = n

\* C3: once the images are listed, every image file of a listed imagepaste
\* folder has one record, and it says referenced exactly when some reference
\* extracted in any of the scanned folders names that file; otherwise orphaned.
C3_ReferencedIffNamedAnywhere ==
    ImagesListed =>
       \A f \in Folders :
          (exists(f) /\ exists(f \o <<Imagepaste>>) /\ f \notin list_failed) =>
             \A n \in AssetNames :
                (f \o <<Imagepaste, n>> \in fs_files) =>
                   /\ Cardinality({k \in 1..Len(all_images_status) :
                         all_images_status[k][1] = <<basename(f), Imagepaste, n>>}) = 1
                   /\ \A k \in 1..Len(all_images_status) :
                         all_images_status[k][1] = <<basename(f), Imagepaste, n>> =>
                            all_images_status[k][2] =
                               IF ReferencedAnywhere(n) THEN "referenced" ELSE "orphaned"

C3_Witness ==
    /\ pc = "done"
    /\ \E k \in 1..Len(all_images_status) :
          /\ all_images_status[k][2] = "referenced"
          /\ \A j \in 1..Len(all_results) :
                all_results[j][3] = all_images_status[k][1][3] =>
                   all_results[j][1] # all_images_status[k][1][1]
    /\ \E k \in 1..Len(all_images_status) : all_images_status[k][2] = "orphaned"

ExistingFolders == SelectSeq(folders_to_search, exists)

\* C4: each configured folder that does not exist adds exactly one sentinel
\* record to the reference table and nothing else, and the other folders are
\* processed as they are when the missing folder is not in the list.
C4_MissingFolderYieldsOneSentinel ==
    ScanOver =>
       /\ \A f \in Folders :
             ~exists(f) =>
                /\ Cardinality({k \in 1..Len(all_results) :
                                   all_results[k][1] = basename(f)}) = 1
                /\ \A k \in 1..Len(all_results) :
                      all_results[k][1] = basename(f) =>
                         /\ all_results[k][2] = << <<"FOLDER_NOT_FOUND">> >>
                         /\ all_results[k][4] = "Folder does not exist"
                /\ \A k \in 1..Len(all_images_status) :
                      all_images_status[k][1][1] # basename(f)
       /\ SelectSeq(all_results, IsReference) =
             Flatten([k \in 1..Len(ExistingFolders) |->
                        process_folder(ExistingFolders[k], read_failed)])
       /\ ImagesListed =>
             all_images_status =
                find_all_images_with_status(ExistingFolders, all_referenced_images,
                                            list_failed)

C4_Witness ==
    /\ pc = "done"
    /\ ~exists(folders_to_search[1])
    /\ \E k \in 1..Len(all_results) :
          /\ IsReference(all_results[k])
          /\ all_results[k][1] = basename(folders_to_search[2])
    /\ \E k \in 1..Len(all_images_status) :
          all_images_status[k][1][1] = basename(folders_to_search[3])

\* C6 as stated: whatever read, listing, directory creation or report write
\* fails, the run does not abort before it prints the summary.
C6_RunNeverAborts == pc # "aborted"

\* C7: no reference (folder, file, name) is recorded with two statuses and no
\* image path is recorded twice, also for a name referenced twice in one file
\* or from several folders.
C7_OneStatusEach ==
    /\ \A j, k \in 1..Len(all_results) :
          (/\ all_results[j][1] = all_results[k][1]
           /\ all_results[j][2] = all_results[k][2]
           /\ all_results[j][3] = all_results[k][3])
          => all_results[j][4] = all_results[k][4]
    /\ \A j, k \in 1..Len(all_images_status) :
          all_images_status[j][1] = all_images_status[k][1] => j = k

C7_Witness ==
    /\ pc = "done"
    /\ \E j, k \in 1..Len(all_results) :
          /\ j # k
          /\ all_results[j][1] = all_results[k][1]
          /\ all_results[j][2] = all_results[k][2]
          /\ all_results[j][3] = all_results[k][3]
    /\ \E j, k \in 1..Len(all_images_status) :
          /\ j # k
          /\ all_images_status[j][1][3] = all_images_status[k][1][3]

\* C8 as stated: every .txt file under an existing configured folder F that is
\* not inside F/imagepaste is read, and each of its references has a record.
C8_EveryTextFileOutsideImagepasteRead ==
    ScanOver =>
       \A f \in fs_files :
          (/\ EndsWithAny(basename(f), {".txt"})
           /\ \E g \in Folders : IsProperPrefix(g, f)
           /\ ~IsProperPrefix(FolderOfFile(f) \o <<Imagepaste>>, f))
          => /\ f \in opened
             /\ f \notin read_failed =>
                   \A item \in Range(fs_content[f]) :
                      (item.kind = "image" /\ item.dir = Imagepaste) =>
                         \E k \in 1..Len(all_results) :
                            /\ all_results[k][2] = relpath(f, FolderOfFile(f))
                            /\ all_results[k][3] = item.name

\* C9 as stated: the printed counts agree with the tables: found is the number
\* of Found records, missing the number of Missing records, total the number
\* of asset records, and referenced + orphaned = total.
C9_SummaryAgreesWithTables ==
    pc = "done" =>
       /\ summary.found = Count(all_results, 4, "Found")
       /\ summary.missing = Count(all_results, 4, "Missing")
       /\ summary.total = Len(all_images_status)
       /\ summary.referenced + summary.orphaned = summary.total

====
